---- MODULE Spec2Model ----
(***************************************************************************)
(* Model of the dependency-graph core of conf_2 (src/src/graph.py) and of  *)
(* the two fetchers it is driven by (src/src/fetcher.py).                  *)
(*                                                                         *)
(* DependencyGraph.build_dependency_graph is modelled step by step: the    *)
(* Python call stack of _bfs_with_recursion is the sequence `stack`, and   *)
(* a call that has been made but whose first lines have not run yet sits   *)
(* in `call`.  detect_cycles is modelled the same way over `cframes`.      *)
(* A Python dict is a sequence of <<key, value>> pairs in insertion order. *)
(***************************************************************************)
EXTENDS Integers, Sequences, FiniteSets, TLC

VARIABLES
    fetcher,          \* the fetcher object handed to build_dependency_graph
    graph,            \* self.graph: dict package -> list of dependency names
    visited,          \* self.visited
    recursion_stack,  \* self.recursion_stack
    args,             \* arguments of the running / last build call
    call,             \* <<>> or <<[package, depth]>>: a call just made
    stack,            \* active frames of _bfs_with_recursion past line 69
    pc,               \* "idle", "build", "done"; "ready", "cycles", "cdone", "raised"
    results,          \* graphs returned by the completed build calls
    trace,            \* expansions of the running build: [package, depth, ok]
    cvisited,         \* detect_cycles: visited
    cstack,           \* detect_cycles: recursion_stack
    cycles,           \* detect_cycles: cycles
    ccall,            \* <<>> or <<[node, path]>>: a call of dfs just made
    cframes,          \* active frames of dfs past line 125
    ki                \* position of the loop of line 133 in the keys

bvars == <<fetcher, visited, recursion_stack, args, call, stack, results, trace>>
cvars == <<cvisited, cstack, cycles, ccall, cframes, ki>>
vars == <<graph, pc, bvars, cvars>>

----------------------------------------------------------------------------
(* Bounds of the model. *)

MaxEdges == 3        \* total number of registry dependency entries
MaxFail == 1         \* number of packages whose live fetch raises
MaxDepthArg == 2     \* largest finite max_depth passed to a build
MaxBuilds == 2       \* number of build calls made on one instance
MaxGraphEdges == 4   \* total number of entries of a graph given to detect_cycles

(* Package names served by the modelled registry, and the inputs tried. *)
Names == {"a", "b", "cb"}
Filters == {"", "c", "b"}
TestRoots == {"serde", "A", "test_dep1"}
Depths == (-1) .. MaxDepthArg

----------------------------------------------------------------------------
(* Python values. *)

\* `sub in s` for two strings
StrIn(sub, s) ==
    \E i \in 1 .. (Len(s) - Len(sub) + 1) : SubSeq(s, i, i + Len(sub) - 1) = sub

\* keys of a dict, as a set
Keys(d) == {d[i][1] : i \in 1 .. Len(d)}

\* d[k] for a key of the dict
Get(d, k) == d[CHOOSE i \in 1 .. Len(d) : d[i][1] = k][2]

\* d.get(k, default)
GetOr(d, k, default) == IF k \in Keys(d) THEN Get(d, k) ELSE default

\* d[k] = v: an existing key keeps its position, a new key is appended
DictSet(d, k, v) ==
    IF k \in Keys(d)
    THEN [i \in 1 .. Len(d) |-> IF d[i][1] = k THEN <<k, v>> ELSE d[i]]
    ELSE Append(d, <<k, v>>)

\* the elements of a sequence, as a set
Range(s) == {s[i] : i \in 1 .. Len(s)}

----------------------------------------------------------------------------
(* The fetchers. *)

test_dependencies ==
    [A |-> <<"B", "C", "D">>,
     B |-> <<"D", "E">>,
     C |-> <<"B", "F">>,
     serde |-> <<"serde_derive", "proc-macro2", "quote", "syn">>,
     tokio |-> <<"bytes", "mio", "num_cpus", "pin-project-lite">>]

\* variant: a name missing from the table has no dependencies
get_test_dependencies_NoFallback(package_name) ==
    IF package_name \in DOMAIN test_dependencies
    THEN test_dependencies[package_name]
    ELSE <<>>

\* TestDataFetcher.get_test_dependencies
get_test_dependencies(package_name) ==
    IF package_name \in DOMAIN test_dependencies
    THEN test_dependencies[package_name]
    ELSE <<"test_dep1", "test_dep2", "test_dep3">>

\* CargoAPIFetcher.get_direct_dependencies on a registry that answers:
\* the names of the dependency entries, the package's own name left out
get_direct_dependencies(f, package_name) ==
    SelectSeq(f.registry[package_name], LAMBDA dep : dep # package_name)

\* the fetch of a package raises (network error, unknown package, bad JSON)
FetchRaises(f, package) == f.kind = "live" /\ package \in f.failing

\* lines 73-78: the fetcher is chosen by the method it has
FetchDeps(f, package) ==
    IF f.kind = "test"
    THEN get_test_dependencies(package)
    ELSE get_direct_dependencies(f, package)

\* lines 81-86: the dependencies kept by the filter, in their order
FilterDeps(dependencies, filter_substring) ==
    SelectSeq(dependencies,
              LAMBDA dep : ~(filter_substring # "" /\ StrIn(filter_substring, dep)))

----------------------------------------------------------------------------
(* The registries and fetchers the model is run against. *)

ListsUpTo(n) == UNION {[1 .. k -> Names] : k \in 0 .. n}

\* every registry over the names S with at most n dependency entries
RECURSIVE Registries(_, _)
Registries(S, n) ==
    IF S = {} THEN {<<>>}
    ELSE LET p == CHOOSE x \in S : TRUE
         IN  UNION {{(p :> l) @@ r : r \in Registries(S \ {p}, n - Len(l))}
                    : l \in ListsUpTo(n)}

TestFetcher == [kind |-> "test", registry |-> <<>>, failing |-> {}]

LiveFetchers ==
    {[kind |-> "live", registry |-> r, failing |-> F] :
        r \in Registries(Names, MaxEdges),
        F \in {X \in SUBSET Names : Cardinality(X) <= MaxFail}}

Roots(f) == IF f.kind = "test" THEN TestRoots ELSE Names

----------------------------------------------------------------------------
(* DependencyGraph.__init__ *)

Init ==
    /\ fetcher \in LiveFetchers \cup {TestFetcher}
    /\ graph = <<>>
    /\ visited = {}
    /\ recursion_stack = {}
    /\ args = [root |-> "", max_depth |-> -1, filter_substring |-> ""]
    /\ call = <<>>
    /\ stack = <<>>
    /\ pc = "idle"
    /\ results = <<>>
    /\ trace = <<>>
    /\ cvisited = {}
    /\ cstack = {}
    /\ cycles = <<>>
    /\ ccall = <<>>
    /\ cframes = <<>>
    /\ ki = 1

----------------------------------------------------------------------------
(* build_dependency_graph and _bfs_with_recursion *)

Top == stack[Len(stack)]
Pop == SubSeq(stack, 1, Len(stack) - 1)

\* variant: the visited set is not cleared
StartBuild_KeepVisited(package_name, max_depth, filter_substring) ==
    /\ graph' = <<>>
    /\ args' = [root |-> package_name, max_depth |-> max_depth,
                filter_substring |-> filter_substring]
    /\ call' = <<[package |-> package_name, depth |-> 0]>>
    /\ pc' = "build"
    /\ trace' = <<>>
    /\ UNCHANGED <<cvars, fetcher, visited, recursion_stack, stack, results>>

\* lines 34-38: reset graph and visited, call the traversal on the root
StartBuild(package_name, max_depth, filter_substring) ==
    /\ graph' = <<>>
    /\ visited' = {}
    /\ args' = [root |-> package_name, max_depth |-> max_depth,
                filter_substring |-> filter_substring]
    /\ call' = <<[package |-> package_name, depth |-> 0]>>
    /\ pc' = "build"
    /\ trace' = <<>>
    /\ UNCHANGED <<cvars, fetcher, recursion_stack, stack, results>>

\* the first build call on a fresh instance
Build ==
    /\ pc = "idle"
    /\ \E package_name \in Roots(fetcher), max_depth \in Depths,
          filter_substring \in Filters :
            StartBuild(package_name, max_depth, filter_substring)

\* a further build call on the same instance with the same arguments
Rebuild ==
    /\ pc = "done"
    /\ Len(results) < MaxBuilds
    /\ StartBuild(args.root, args.max_depth, args.filter_substring)

\* variant: the limit is off by one level
DepthExceeded_OffByOne(c) == args.max_depth # -1 /\ c.depth > args.max_depth + 1

DepthExceeded(c) == args.max_depth # -1 /\ c.depth > args.max_depth

\* lines 56-57: depth-limit stop
DepthStop ==
    /\ pc = "build" /\ call # <<>>
    /\ DepthExceeded(call[1])
    /\ call' = <<>>
    /\ UNCHANGED <<cvars, fetcher, graph, visited, recursion_stack, args, stack, pc,
                   results, trace>>

\* lines 60-62: the package is on the current path
CycleStop ==
    /\ pc = "build" /\ call # <<>>
    /\ ~DepthExceeded(call[1])
    /\ call[1].package \in recursion_stack
    /\ call' = <<>>
    /\ UNCHANGED <<cvars, fetcher, graph, visited, recursion_stack, args, stack, pc,
                   results, trace>>

\* lines 65-66: the package was visited before in this build
MemoStop ==
    /\ pc = "build" /\ call # <<>>
    /\ ~DepthExceeded(call[1])
    /\ call[1].package \notin recursion_stack
    /\ call[1].package \in visited
    /\ call' = <<>>
    /\ UNCHANGED <<cvars, fetcher, graph, visited, recursion_stack, args, stack, pc,
                   results, trace>>

\* variant: the package is not added to the visited set
Enter_NoMark ==
    /\ pc = "build" /\ call # <<>>
    /\ ~DepthExceeded(call[1])
    /\ call[1].package \notin recursion_stack
    /\ call[1].package \notin visited
    /\ recursion_stack' = recursion_stack \cup {call[1].package}
    /\ stack' = Append(stack, [package |-> call[1].package,
                               depth |-> call[1].depth,
                               at |-> "fetch", deps |-> <<>>, i |-> 1])
    /\ call' = <<>>
    /\ UNCHANGED <<cvars, fetcher, graph, visited, args, pc, results, trace>>

\* lines 68-69: the expansion of the package starts
Enter ==
    /\ pc = "build" /\ call # <<>>
    /\ ~DepthExceeded(call[1])
    /\ call[1].package \notin recursion_stack
    /\ call[1].package \notin visited
    /\ visited' = visited \cup {call[1].package}
    /\ recursion_stack' = recursion_stack \cup {call[1].package}
    /\ stack' = Append(stack, [package |-> call[1].package,
                               depth |-> call[1].depth,
                               at |-> "fetch", deps |-> <<>>, i |-> 1])
    /\ call' = <<>>
    /\ UNCHANGED <<cvars, fetcher, graph, args, pc, results, trace>>

\* variant: the fetched list is recorded and traversed unfiltered
FetchOk_Unfiltered ==
    /\ pc = "build" /\ call = <<>> /\ stack # <<>>
    /\ Top.at = "fetch"
    /\ ~FetchRaises(fetcher, Top.package)
    /\ LET dependencies == FetchDeps(fetcher, Top.package)
       IN  /\ graph' = DictSet(graph, Top.package, dependencies)
           /\ stack' = Append(Pop, [Top EXCEPT !.at = "loop",
                                               !.deps = dependencies])
    /\ trace' = Append(trace, [package |-> Top.package, depth |-> Top.depth,
                               ok |-> TRUE])
    /\ UNCHANGED <<cvars, fetcher, visited, recursion_stack, args, call, pc, results>>

\* lines 73-89: the fetch answers, the kept dependencies are recorded
FetchOk ==
    /\ pc = "build" /\ call = <<>> /\ stack # <<>>
    /\ Top.at = "fetch"
    /\ ~FetchRaises(fetcher, Top.package)
    /\ LET filtered_dependencies ==
               FilterDeps(FetchDeps(fetcher, Top.package), args.filter_substring)
       IN  /\ graph' = DictSet(graph, Top.package, filtered_dependencies)
           /\ stack' = Append(Pop, [Top EXCEPT !.at = "loop",
                                               !.deps = filtered_dependencies])
    /\ trace' = Append(trace, [package |-> Top.package, depth |-> Top.depth,
                               ok |-> TRUE])
    /\ UNCHANGED <<cvars, fetcher, visited, recursion_stack, args, call, pc, results>>

\* variant: the package stays on the recursion stack after the error
FetchFail_NoRemove ==
    /\ pc = "build" /\ call = <<>> /\ stack # <<>>
    /\ Top.at = "fetch"
    /\ FetchRaises(fetcher, Top.package)
    /\ stack' = Pop
    /\ trace' = Append(trace, [package |-> Top.package, depth |-> Top.depth,
                               ok |-> FALSE])
    /\ UNCHANGED <<cvars, fetcher, graph, visited, recursion_stack, args, call,
                   pc, results>>

\* variant: the error is not caught per package and unwinds every visit
FetchFail_Unwind ==
    /\ pc = "build" /\ call = <<>> /\ stack # <<>>
    /\ Top.at = "fetch"
    /\ FetchRaises(fetcher, Top.package)
    /\ recursion_stack' = {}
    /\ stack' = <<>>
    /\ trace' = Append(trace, [package |-> Top.package, depth |-> Top.depth,
                               ok |-> FALSE])
    /\ UNCHANGED <<cvars, fetcher, graph, visited, args, call, pc, results>>

\* lines 73-78, 95-98: the fetch raises; the error is printed and the
\* package leaves the recursion stack
FetchFail ==
    /\ pc = "build" /\ call = <<>> /\ stack # <<>>
    /\ Top.at = "fetch"
    /\ FetchRaises(fetcher, Top.package)
    /\ recursion_stack' = recursion_stack \ {Top.package}
    /\ stack' = Pop
    /\ trace' = Append(trace, [package |-> Top.package, depth |-> Top.depth,
                               ok |-> FALSE])
    /\ UNCHANGED <<cvars, fetcher, graph, visited, args, call, pc, results>>

\* variant: the loop ends after its first dependency
NextDep_OnlyFirst ==
    /\ pc = "build" /\ call = <<>> /\ stack # <<>>
    /\ Top.at = "loop"
    /\ Top.i <= Len(Top.deps)
    /\ call' = <<[package |-> Top.deps[Top.i], depth |-> Top.depth + 1]>>
    /\ stack' = Append(Pop, [Top EXCEPT !.i = Len(Top.deps) + 1])
    /\ UNCHANGED <<cvars, fetcher, graph, visited, recursion_stack, args, pc,
                   results, trace>>

\* variant: the loop does not move on to the following dependency
NextDep_NoAdvance ==
    /\ pc = "build" /\ call = <<>> /\ stack # <<>>
    /\ Top.at = "loop"
    /\ Top.i <= Len(Top.deps)
    /\ call' = <<[package |-> Top.deps[Top.i], depth |-> Top.depth + 1]>>
    /\ UNCHANGED <<cvars, fetcher, graph, visited, recursion_stack, args, pc,
                   results, trace, stack>>

\* lines 92-93: the next kept dependency is visited one level deeper
NextDep ==
    /\ pc = "build" /\ call = <<>> /\ stack # <<>>
    /\ Top.at = "loop"
    /\ Top.i <= Len(Top.deps)
    /\ call' = <<[package |-> Top.deps[Top.i], depth |-> Top.depth + 1]>>
    /\ stack' = Append(Pop, [Top EXCEPT !.i = @ + 1])
    /\ UNCHANGED <<cvars, fetcher, graph, visited, recursion_stack, args, pc,
                   results, trace>>

\* lines 97-98: the loop is over, the visit exits
Return ==
    /\ pc = "build" /\ call = <<>> /\ stack # <<>>
    /\ Top.at = "loop"
    /\ Top.i > Len(Top.deps)
    /\ recursion_stack' = recursion_stack \ {Top.package}
    /\ stack' = Pop
    /\ UNCHANGED <<cvars, fetcher, graph, visited, args, call, pc, results, trace>>

\* lines 40-41: the traversal of the root is over, the graph is returned
Finish ==
    /\ pc = "build" /\ call = <<>> /\ stack = <<>>
    /\ pc' = "done"
    /\ results' = Append(results, graph)
    /\ UNCHANGED <<cvars, fetcher, graph, visited, recursion_stack, args, call, stack,
                   trace>>

Next ==
    \/ Build
    \/ Rebuild
    \/ DepthStop
    \/ CycleStop
    \/ MemoStop
    \/ Enter
    \/ FetchOk
    \/ FetchFail
    \/ NextDep
    \/ Return
    \/ Finish

Spec == Init /\ [][Next]_vars

\* the interpreter runs the single thread of a build for as long as it has
\* a step to take
SpecFair == Init /\ [][Next]_vars /\ WF_vars(Next)

----------------------------------------------------------------------------
(* detect_cycles *)

\* TestGraphBuilder.build_test_graph
build_test_graph ==
    << <<"A", <<"B", "C">> >>,
       <<"B", <<"D", "E">> >>,
       <<"C", <<"B", "F">> >>,
       <<"D", <<"G">> >>,
       <<"E", <<"D", "H">> >>,
       <<"F", <<"E", "I">> >>,
       <<"G", <<"B">> >>,
       <<"H", <<>> >>,
       <<"I", <<"F">> >> >>

\* every dict whose keys are the names of the sequence ks, in that order,
\* with at most n entries in its lists
RECURSIVE DictsOver(_, _)
DictsOver(ks, n) ==
    IF ks = <<>> THEN {<<>>}
    ELSE UNION {{<< <<Head(ks), l>> >> \o d : d \in DictsOver(Tail(ks), n - Len(l))}
                : l \in ListsUpTo(n)}

\* the sequences of distinct names
KeyOrders ==
    {ks \in UNION {[1 .. k -> Names] : k \in 0 .. Cardinality(Names)} :
        \A i, j \in 1 .. Len(ks) : ks[i] = ks[j] => i = j}

GivenGraphs == UNION {DictsOver(ks, MaxGraphEdges) : ks \in KeyOrders}

\* an instance whose graph field has been set, as display_test_graph does
InitCycles ==
    /\ graph \in GivenGraphs \cup {build_test_graph}
    /\ pc = "ready"
    /\ fetcher = TestFetcher
    /\ visited = {}
    /\ recursion_stack = {}
    /\ args = [root |-> "", max_depth |-> -1, filter_substring |-> ""]
    /\ call = <<>>
    /\ stack = <<>>
    /\ results = <<>>
    /\ trace = <<>>
    /\ cvisited = {}
    /\ cstack = {}
    /\ cycles = <<>>
    /\ ccall = <<>>
    /\ cframes = <<>>
    /\ ki = 1

CTop == cframes[Len(cframes)]
CPop == SubSeq(cframes, 1, Len(cframes) - 1)

\* variant: the position after the first occurrence
PathIndex_OffByOne(path, node) ==
    1 + CHOOSE i \in 1 .. Len(path) :
            path[i] = node /\ \A j \in 1 .. (i - 1) : path[j] # node

\* path.index(node): the first position of node in path
PathIndex(path, node) ==
    CHOOSE i \in 1 .. Len(path) :
        path[i] = node /\ \A j \in 1 .. (i - 1) : path[j] # node

\* lines 107-109: the call starts with fresh local state
DetectCycles ==
    /\ pc = "ready"
    /\ cvisited' = {}
    /\ cstack' = {}
    /\ cycles' = <<>>
    /\ ki' = 1
    /\ pc' = "cycles"
    /\ UNCHANGED <<graph, bvars, ccall, cframes>>

\* lines 133-135: the next key is unvisited, dfs is called on it
OuterCall ==
    /\ pc = "cycles" /\ ccall = <<>> /\ cframes = <<>>
    /\ ki <= Len(graph)
    /\ graph[ki][1] \notin cvisited
    /\ ccall' = <<[node |-> graph[ki][1], path |-> <<>>]>>
    /\ ki' = ki + 1
    /\ UNCHANGED <<graph, pc, bvars, cvisited, cstack, cycles, cframes>>

\* lines 133-134: the next key is visited already
OuterSkip ==
    /\ pc = "cycles" /\ ccall = <<>> /\ cframes = <<>>
    /\ ki <= Len(graph)
    /\ graph[ki][1] \in cvisited
    /\ ki' = ki + 1
    /\ UNCHANGED <<graph, pc, bvars, cvisited, cstack, cycles, ccall, cframes>>

\* variant: the whole path is reported, not its part from the node on
CycleFound_WholePath ==
    /\ pc = "cycles" /\ ccall # <<>>
    /\ ccall[1].node \in cstack
    /\ IF ccall[1].node \in Range(ccall[1].path)
       THEN LET cycle == ccall[1].path
            IN  /\ cycles' = IF cycle \in Range(cycles) THEN cycles
                             ELSE Append(cycles, cycle)
                /\ ccall' = <<>>
                /\ pc' = pc
       ELSE /\ pc' = "raised"
            /\ UNCHANGED <<cycles, ccall>>
    /\ UNCHANGED <<graph, bvars, cvisited, cstack, cframes, ki>>

\* lines 112-118: the node is on the recursion stack; path.index raises
\* ValueError when the node is not in the path
CycleFound ==
    /\ pc = "cycles" /\ ccall # <<>>
    /\ ccall[1].node \in cstack
    /\ IF ccall[1].node \in Range(ccall[1].path)
       THEN LET cycle_start == PathIndex(ccall[1].path, ccall[1].node)
                cycle == SubSeq(ccall[1].path, cycle_start, Len(ccall[1].path))
            IN  /\ cycles' = IF cycle \in Range(cycles) THEN cycles
                             ELSE Append(cycles, cycle)
                /\ ccall' = <<>>
                /\ pc' = pc
       ELSE /\ pc' = "raised"
            /\ UNCHANGED <<cycles, ccall>>
    /\ UNCHANGED <<graph, bvars, cvisited, cstack, cframes, ki>>

\* lines 120-121: the node was visited before
VisitedStop ==
    /\ pc = "cycles" /\ ccall # <<>>
    /\ ccall[1].node \notin cstack
    /\ ccall[1].node \in cvisited
    /\ ccall' = <<>>
    /\ UNCHANGED <<graph, pc, bvars, cvisited, cstack, cycles, cframes, ki>>

\* lines 123-127: the node is entered and its neighbours are looked up
DfsEnter ==
    /\ pc = "cycles" /\ ccall # <<>>
    /\ ccall[1].node \notin cstack
    /\ ccall[1].node \notin cvisited
    /\ cvisited' = cvisited \cup {ccall[1].node}
    /\ cstack' = cstack \cup {ccall[1].node}
    /\ cframes' = Append(cframes,
                         [node |-> ccall[1].node,
                          path |-> Append(ccall[1].path, ccall[1].node),
                          neighbors |-> GetOr(graph, ccall[1].node, <<>>),
                          i |-> 1])
    /\ ccall' = <<>>
    /\ UNCHANGED <<graph, pc, bvars, cycles, ki>>

\* lines 127-128: dfs is called on the next neighbour with a copy of the path
DfsNext ==
    /\ pc = "cycles" /\ ccall = <<>> /\ cframes # <<>>
    /\ CTop.i <= Len(CTop.neighbors)
    /\ ccall' = <<[node |-> CTop.neighbors[CTop.i], path |-> CTop.path]>>
    /\ cframes' = Append(CPop, [CTop EXCEPT !.i = @ + 1])
    /\ UNCHANGED <<graph, pc, bvars, cvisited, cstack, cycles, ki>>

\* variant: the node stays on the recursion stack when the call returns
DfsReturn_NoRemove ==
    /\ pc = "cycles" /\ ccall = <<>> /\ cframes # <<>>
    /\ CTop.i > Len(CTop.neighbors)
    /\ cframes' = CPop
    /\ UNCHANGED <<graph, pc, bvars, cvisited, cstack, cycles, ccall, ki>>

\* lines 130-131: the node leaves the recursion stack (set.remove raises
\* KeyError when it is not there) and the call returns
DfsReturn ==
    /\ pc = "cycles" /\ ccall = <<>> /\ cframes # <<>>
    /\ CTop.i > Len(CTop.neighbors)
    /\ IF CTop.node \in cstack
       THEN /\ cstack' = cstack \ {CTop.node}
            /\ cframes' = CPop
            /\ pc' = pc
       ELSE /\ pc' = "raised"
            /\ UNCHANGED <<cstack, cframes>>
    /\ UNCHANGED <<graph, bvars, cvisited, cycles, ccall, ki>>

\* line 137: every key has been tried, cycles is returned
CyclesReturn ==
    /\ pc = "cycles" /\ ccall = <<>> /\ cframes = <<>>
    /\ ki > Len(graph)
    /\ pc' = "cdone"
    /\ UNCHANGED <<graph, bvars, cvars>>

NextCycles ==
    \/ DetectCycles
    \/ OuterCall
    \/ OuterSkip
    \/ CycleFound
    \/ VisitedStop
    \/ DfsEnter
    \/ DfsNext
    \/ DfsReturn
    \/ CyclesReturn

SpecCycles == InitCycles /\ [][NextCycles]_vars

----------------------------------------------------------------------------
(* Notions the properties are stated with. *)

\* the build that is running or has just returned is served without errors
NoFailure == fetcher.kind = "test" \/ fetcher.failing = {}

\* the packages listed by the packages of S
Listed(S) == UNION {Range(FetchDeps(fetcher, p)) : p \in S}

\* the listed packages the filter keeps
ListedKept(S) ==
    UNION {Range(FilterDeps(FetchDeps(fetcher, p), args.filter_substring)) : p \in S}

RECURSIVE ReachAll(_)
ReachAll(S) == LET T == S \cup Listed(S) IN IF T = S THEN S ELSE ReachAll(T)

RECURSIVE ReachKept(_)
ReachKept(S) == LET T == S \cup ListedKept(S) IN IF T = S THEN S ELSE ReachKept(T)

\* no package reachable from the root depends, directly or not, on itself
Acyclic == \A p \in ReachAll({args.root}) : p \notin ReachAll(Listed({p}))

\* how many times the package was fetched in this build
Fetches(p) == Cardinality({i \in 1 .. Len(trace) : trace[i].package = p})

Expanded == {trace[i].package : i \in 1 .. Len(trace)}

\* the fetch of the package raised in this build
Failed == {trace[i].package : i \in {j \in 1 .. Len(trace) : ~trace[j].ok}}

\* the depth at which the package was expanded
ExpandedAt(p) == trace[CHOOSE i \in 1 .. Len(trace) : trace[i].package = p].depth

ContainsFilter(name) ==
    args.filter_substring # "" /\ StrIn(args.filter_substring, name)

RecordedAsFetched(p) ==
    /\ p \in Keys(graph)
    /\ Get(graph, p) = FilterDeps(FetchDeps(fetcher, p), args.filter_substring)

----------------------------------------------------------------------------
(* C1 as stated: after an unlimited-depth build of an acyclic relation     *)
(* with no fetch error, every package reachable from the root has been     *)
(* expanded exactly once and graph[package] is its fetched list with the   *)
(* filtered names removed, in order.                                       *)
C1_AsStated ==
    (pc = "done" /\ NoFailure /\ args.max_depth = -1 /\ Acyclic)
        => \A p \in ReachAll({args.root}) :
               Fetches(p) = 1 /\ RecordedAsFetched(p)

(* C1: after an unlimited-depth build of an acyclic relation with no fetch *)
(* error, every package reachable from the root through names the filter   *)
(* keeps has been expanded exactly once, and graph[package] is its fetched *)
(* list with the filtered names removed, in the original order.            *)
C1_ReachableExpandedOnce ==
    (pc = "done" /\ NoFailure /\ args.max_depth = -1 /\ Acyclic)
        => \A p \in ReachKept({args.root}) :
               Fetches(p) = 1 /\ RecordedAsFetched(p)

C1_Witness ==
    /\ pc = "done" /\ NoFailure /\ args.max_depth = -1 /\ Acyclic
    /\ args.filter_substring # ""
    /\ Cardinality(ReachKept({args.root})) = 2
    /\ Cardinality(ReachAll({args.root})) = 3
    /\ \E p \in Keys(graph) :
           Get(graph, p) # <<>> /\ Len(Get(graph, p)) < Len(FetchDeps(fetcher, p))

(* C2: in one build no package is fetched twice, whatever the relation,    *)
(* the depth limit and the fetch failures.                                 *)
C2_FetchedAtMostOnce ==
    \A i, j \in 1 .. Len(trace) :
        trace[i].package = trace[j].package => i = j

C2_Witness ==
    /\ pc = "build" /\ call # <<>>
    /\ call[1].package \in visited
    /\ call[1].package \notin recursion_stack
    /\ Len(stack) = 1
    /\ Fetches(call[1].package) = 1

(* C3 as stated: with a non-empty filter, a dependency name containing it  *)
(* is in no adjacency list, is never fetched and is not a key.             *)
C3_AsStated ==
    \A name \in Listed(Expanded \ Failed) :
        ContainsFilter(name) =>
            /\ \A p \in Keys(graph) : name \notin Range(Get(graph, p))
            /\ name \notin Expanded
            /\ name \notin Keys(graph)

(* C3: with a non-empty filter, a dependency name containing it is in no   *)
(* adjacency list, and unless it is the root package of the build it is    *)
(* never fetched and is not a key.                                         *)
C3_FilteredNeverExpanded ==
    \A name \in Listed(Expanded \ Failed) :
        ContainsFilter(name) =>
            /\ \A p \in Keys(graph) : name \notin Range(Get(graph, p))
            /\ name # args.root => name \notin Expanded
            /\ name # args.root => name \notin Keys(graph)

C3_Witness ==
    /\ pc = "done"
    /\ \E p \in Keys(graph) :
           /\ \E name \in Range(FetchDeps(fetcher, p)) :
                  ContainsFilter(name) /\ name # args.filter_substring
           /\ Get(graph, p) # <<>>
    /\ Cardinality(Keys(graph)) >= 2

\* every expansion of the build was made within the depth limit
WithinDepth ==
    args.max_depth >= 0 =>
        \A i \in 1 .. Len(trace) : trace[i].depth <= args.max_depth

(* C4 as stated: with max_depth = d >= 0 every key was expanded at depth   *)
(* at most d; with max_depth = 0 the graph has exactly the key root,       *)
(* mapped to its filtered dependencies, none of which is a key.            *)
C4_AsStated ==
    /\ WithinDepth
    /\ (pc = "done" /\ args.max_depth = 0) =>
           /\ Keys(graph) = {args.root}
           /\ RecordedAsFetched(args.root)
           /\ \A dep \in Range(Get(graph, args.root)) : dep \notin Keys(graph)

(* C4: with max_depth = d >= 0 every key was expanded at depth at most d;  *)
(* with max_depth = 0 the graph has no key but the root, and when the      *)
(* fetch of the root succeeds it has exactly the key root, mapped to its   *)
(* filtered dependencies, none of which other than the root is a key.      *)
C4_DepthBound ==
    /\ WithinDepth
    /\ (pc = "done" /\ args.max_depth = 0) =>
           /\ Keys(graph) \subseteq {args.root}
           /\ ~FetchRaises(fetcher, args.root) =>
                  /\ Keys(graph) = {args.root}
                  /\ RecordedAsFetched(args.root)
                  /\ \A dep \in Range(Get(graph, args.root)) \ {args.root} :
                         dep \notin Keys(graph)

C4_Witness ==
    /\ pc = "done" /\ args.max_depth = 0
    /\ Keys(graph) = {args.root}
    /\ Len(Get(graph, args.root)) >= 2
    /\ args.root \notin Range(Get(graph, args.root))

\* a dependency of a recorded package that the depth limit lets in
Admitted(parent) ==
    args.max_depth = -1 \/ ExpandedAt(parent) + 1 <= args.max_depth

(* C5: when a build has returned, a package whose fetch raised is not a    *)
(* key and was fetched once, and every dependency kept for a recorded      *)
(* package (so every sibling of a failed package) that the depth limit     *)
(* admits was visited, and is recorded with its own filtered list unless   *)
(* its own fetch raises.                                                   *)
C5_FailureIsolated ==
    pc = "done" =>
        /\ \A f \in Failed : f \notin Keys(graph) /\ Fetches(f) = 1
        /\ \A parent \in Keys(graph) :
               Admitted(parent) =>
                   \A s \in Range(Get(graph, parent)) :
                       /\ s \in visited
                       /\ FetchRaises(fetcher, s) => s \notin Keys(graph)
                       /\ ~FetchRaises(fetcher, s) => RecordedAsFetched(s)

C5_Witness ==
    /\ pc = "done"
    /\ \E i, j \in 1 .. Len(trace) :
           /\ i < j
           /\ ~trace[i].ok /\ trace[j].ok
           /\ trace[i].depth = 1 /\ trace[j].depth = 1
           /\ Get(graph, args.root) = <<trace[i].package, trace[j].package>>
           /\ trace[j].package \in Keys(graph)

(* C7: every build call made on an instance with the same arguments and    *)
(* the same fetcher returns the same graph, and each build starts from an  *)
(* empty graph, visited set and recursion stack.                           *)
C7_RebuildEqual ==
    /\ \A i, j \in 1 .. Len(results) : results[i] = results[j]
    /\ (pc = "build" /\ call # <<>> /\ stack = <<>> /\ trace = <<>>) =>
           graph = <<>> /\ visited = {} /\ recursion_stack = {}

C7_Witness ==
    /\ Len(results) = 2
    /\ Failed # {}
    /\ Len(results[2]) >= 2

SerdeBuild ==
    /\ pc = "done" /\ fetcher.kind = "test"
    /\ args = [root |-> "serde", max_depth |-> -1, filter_substring |-> ""]

(* C8 as stated: the unlimited build of 'serde' with the test fetcher has  *)
(* exactly one key, 'serde', mapped to its four dependencies.              *)
C8_AsStated ==
    SerdeBuild =>
        graph = << <<"serde", <<"serde_derive", "proc-macro2", "quote", "syn">> >> >>

(* C8: the unlimited build of 'serde' with the test fetcher maps 'serde'   *)
(* to its four dependencies in order, and has seven more keys: the four    *)
(* dependencies and test_dep1, test_dep2, test_dep3, each mapped to the    *)
(* fallback list.                                                          *)
C8_SerdeGraph ==
    SerdeBuild =>
        /\ graph[1] = <<"serde", <<"serde_derive", "proc-macro2", "quote", "syn">> >>
        /\ Keys(graph) = {"serde", "serde_derive", "proc-macro2", "quote", "syn",
                          "test_dep1", "test_dep2", "test_dep3"}
        /\ Len(graph) = 8
        /\ \A p \in Keys(graph) \ {"serde"} :
               Get(graph, p) = <<"test_dep1", "test_dep2", "test_dep3">>

C8_Witness == SerdeBuild /\ Len(results) = 1

(* C10: at every point of a build the recursion stack is the set of the    *)
(* packages whose visit is active, each active once, and it is empty when  *)
(* no build is running.                                                    *)
C10_StackIsActivePath ==
    /\ recursion_stack = {stack[i].package : i \in 1 .. Len(stack)}
    /\ \A i, j \in 1 .. Len(stack) : stack[i].package = stack[j].package => i = j
    /\ pc \in {"idle", "done"} => recursion_stack = {}

C10_Witness ==
    /\ pc = "build"
    /\ Failed # {}
    /\ Len(stack) = 2
    /\ call # <<>> /\ call[1].package \in recursion_stack

----------------------------------------------------------------------------
(* Properties of detect_cycles, checked under SpecCycles. *)

\* the rotations of a sequence
Rotations(c) ==
    {[i \in 1 .. Len(c) |-> c[((i + k - 1) % Len(c)) + 1]] : k \in 0 .. (Len(c) - 1)}

\* the names the keys of S list
Successors(S) == UNION {Range(Get(graph, n)) : n \in S \cap Keys(graph)}

RECURSIVE Descendants(_)
Descendants(S) ==
    LET T == S \cup Successors(S) IN IF T = S THEN S ELSE Descendants(T)

\* some node of the graph reaches itself along one or more edges
HasCycle == \E n \in Keys(graph) : n \in Descendants(Successors({n}))

(* C6: on the fixed test graph detect_cycles returns a list that contains  *)
(* the loop B -> D -> G -> B and the loop F -> I -> F, each as the         *)
(* sequence of its nodes in loop order from one of them.                   *)
C6_TestGraphCycles ==
    (graph = build_test_graph /\ pc = "cdone") =>
        /\ \E c \in Range(cycles) : c \in Rotations(<<"B", "D", "G">>)
        /\ \E c \in Range(cycles) : c \in Rotations(<<"F", "I">>)

C6_Witness ==
    /\ graph = build_test_graph /\ pc = "cdone"
    /\ cycles = << <<"B", "D", "G">>, <<"F", "I">> >>

(* C9: detect_cycles never raises, and the list it returns is empty        *)
(* exactly when the graph has no directed cycle.                           *)
C9_NoRaiseEmptyIffAcyclic ==
    /\ pc # "raised"
    /\ pc = "cdone" => (cycles = <<>> <=> ~HasCycle)

C9_Witness ==
    /\ pc = "cdone"
    /\ cycles # <<>>
    /\ \E i \in 1 .. Len(graph) :
           /\ \E n \in Range(graph[i][2]) : n \notin Keys(graph)
           /\ graph[i][1] \in Range(graph[i][2])
           /\ \E j, k \in 1 .. Len(graph[i][2]) :
                  j # k /\ graph[i][2][j] = graph[i][2][k]

\* the nodes of the active calls of dfs, outermost first
ActivePath == [i \in 1 .. Len(cframes) |-> cframes[i].node]

\* c is a cycle of the graph over distinct nodes
RealCycle(c) ==
    /\ c # <<>>
    /\ \A i, j \in 1 .. Len(c) : c[i] = c[j] => i = j
    /\ \A i \in 1 .. Len(c) : c[i] \in Keys(graph)
    /\ \A i \in 1 .. (Len(c) - 1) : c[i + 1] \in Range(Get(graph, c[i]))
    /\ c[1] \in Range(Get(graph, c[Len(c)]))

\* the step that reports a cycle reports the part of the active path from
\* the node just called on, and that node was called from the path's end
ReportsActiveSuffix ==
    cycles' # cycles =>
        LET c == cycles'[Len(cycles')]
        IN  /\ cycles' = Append(cycles, c)
            /\ ccall # <<>> /\ c[1] = ccall[1].node
            /\ Len(c) <= Len(ActivePath)
            /\ c = SubSeq(ActivePath, Len(ActivePath) - Len(c) + 1, Len(ActivePath))
            /\ c[Len(c)] = CTop.node
            /\ CTop.neighbors[CTop.i - 1] = c[1]

(* C11: every cycle in the list of detect_cycles is a cycle of the graph   *)
(* over distinct nodes (each node lists the next, the last lists the       *)
(* first), and when it is added it is the suffix, from its first node, of  *)
(* the DFS path active when the edge from its last node to its first node  *)
(* was followed.                                                           *)
C11_CyclesAreRealSuffixes ==
    /\ [](pc \in {"cycles", "cdone"} => \A c \in Range(cycles) : RealCycle(c))
    /\ [][pc = "cycles" => ReportsActiveSuffix]_vars

C11_Witness ==
    /\ pc = "cdone"
    /\ graph # build_test_graph
    /\ Len(graph) = 3
    /\ \E c \in Range(cycles) : Len(c) = 2 /\ graph[1][1] \notin Range(c)
    /\ Len(cycles) = 2

----------------------------------------------------------------------------
(* C12: every build call returns, also with max_depth = -1 and a relation  *)
(* with cycles or self-dependencies such as the test fetcher's fallback    *)
(* list: a build that has started leads to the build having returned.      *)
C12_BuildTerminates == (pc = "build") ~> (pc = "done")

C12_Witness ==
    /\ pc = "done"
    /\ args.max_depth = -1
    /\ fetcher.kind = "test"
    /\ args.root \in Range(Get(graph, args.root))
    /\ ~Acyclic

----------------------------------------------------------------------------
\* the packages that some path of at most n dependency edges reaches from S
RECURSIVE WithinHops(_, _)
WithinHops(S, n) == IF n = 0 THEN S ELSE WithinHops(S \cup Listed(S), n - 1)

(* C13: after a build with max_depth = d >= 0, no fetch error and an empty *)
(* filter, every package that some path of at most d dependency edges      *)
(* reaches from the root has been expanded and is a key of the graph.      *)
C13_WithinDepthExpanded ==
    (pc = "done" /\ NoFailure /\ args.max_depth >= 0 /\ args.filter_substring = "")
        => \A p \in WithinHops({args.root}, args.max_depth) :
               p \in Expanded /\ p \in Keys(graph)

====
